---- MODULE Spec2Model ----
(***************************************************************************)
(* Session/topic registry and request router of src/lib/walletkit.ts:      *)
(* the session_proposal, session_delete and session_request handlers, pair,*)
(* setCurrentWalletId and setAutoMint, as one state machine.  Every await  *)
(* of a handler is a suspension point: the code between two awaits is one  *)
(* atomic action (single-threaded, cooperative scheduling).                *)
(***************************************************************************)
EXTENDS Integers, Sequences, FiniteSets, TLC

\* ------------------------------------------------------------ bounds
\* Spec: one wallet, every operation and every request input
MaxProposals == 1
MaxRequests == 1
MaxDeletes == 1
MaxPairs == 1
MaxTicks == 3
\* SpecRegistry: several proposals and requests on the registry
RegProposals == 2
RegRequests == 1
RegDeletes == 1
RegPairingTopics == 2
\* SpecProposal: proposals of every kind of event id
PropProposals == 2
\* SpecConcurrent: requests in flight together
ConcRequests == 2
\* SpecKit: overlapping calls of getWalletKit
KitCalls == 3
NonceCalls == 2
FocusPairs == 2
FocusProposals == 2
ConnCalls == 2
ConnProposals == 1
MethProposals == 1
MethRequests == 1
LogRequests == 1

\* ------------------------------------------------------------ program constants
ApprovalTimeoutMs == 180000
RejectionCode == 4001
\* the step of simulated time: half the approval timeout
TickMs == ApprovalTimeoutMs \div 2

NoSession == 0
NoWallet == "null"
\* event.id of a proposal event that carries none
NoId == -1
\* let walletKit: ReownKit | null = null
NoKit == 0

\* handleTransaction
MAX_RETRIES == 3
DefaultGasLimit == 1000000
OneGwei == 1000000000

\* createBlastApiProvider: attempts and the timeout of one attempt
MaxConnectAttempts == 3
ConnectTimeoutMs == 10000

\* ------------------------------------------------------------ environment
Wallets == {"w1", "w2"}

\* wallets table rows: the network column of each wallet record
WalletNetwork(w) == IF w = "w1" THEN "ethereum" ELSE "skale"

\* wallets table rows: the chain_id column; the row of a SKALE wallet that
\* existed when the chain_id column was added carries the id the migration wrote
WalletChainId(w) == IF w = "w1" THEN 1 ELSE 1273227453

\* wallets table rows: address, and the private key once decrypted
WalletAddress(w) == "addr:" \o w
DecryptedKey(w) == "key:" \o w

\* the configured networks, by id
NetworkIds == {"ethereum", "bnb", "polygon", "arbitrum", "base", "avalanche",
               "celo", "linea", "blast", "skale"}

\* the configured networks: chainId of each entry
ChainId(n) ==
  CASE n = "ethereum" -> 1 [] n = "bnb" -> 56 [] n = "polygon" -> 137
    [] n = "arbitrum" -> 42161 [] n = "base" -> 8453 [] n = "avalanche" -> 43114
    [] n = "celo" -> 42220 [] n = "linea" -> 59144 [] n = "blast" -> 81457
    [] n = "skale" -> 1564830818

\* the configured networks: useEthereumWallet is false for skale and absent
\* from every other entry
UseEthereumWallet(n) == FALSE

\* topics minted by the relay: pairing topics and session topics
PairingTopic(i) == "p" \o ToString(i)
SessionTopic(i) == "s" \o ToString(i)

\* call data samples, as the characters of the hex string
MintSelector == <<"0","x","4","0","c","1","0","f","1","9">>
CallData(d) ==
  CASE d = "mint"      -> <<"0","x","4","0","c","1","0","f","1","9","0","0">>
    [] d = "mintUpper" -> <<"0","x","4","0","C","1","0","F","1","9","0","0">>
    [] d = "transfer"  -> <<"0","x","a","9","0","5","9","c","b","b","0","0">>
    [] OTHER           -> << >>

\* String.prototype.toLowerCase on the characters that occur
LowerChar(c) ==
  CASE c = "A" -> "a" [] c = "B" -> "b" [] c = "C" -> "c"
    [] c = "D" -> "d" [] c = "E" -> "e" [] c = "F" -> "f"
    [] c = "X" -> "x" [] OTHER -> c
ToLowerCase(s) == [i \in 1..Len(s) |-> LowerChar(s[i])]

\* String.prototype.includes
Includes(s, pat) ==
  \E i \in 1..(Len(s) - Len(pat) + 1) : SubSeq(s, i, i + Len(pat) - 1) = pat

\* params[0].chainId samples of wallet_switchEthereumChain, as characters
ChainIdParam(d) ==
  CASE d = "0x1"        -> <<"0","x","1">>
    [] d = "0x89"       -> <<"0","x","8","9">>
    [] d = "0xA4B1"     -> <<"0","x","A","4","B","1">>
    [] d = "0x5d456c62" -> <<"0","x","5","d","4","5","6","c","6","2">>
    [] d = "0x539"      -> <<"0","x","5","3","9">>
    [] d = "0x1zz"      -> <<"0","x","1","z","z">>
    [] d = "137"        -> <<"1","3","7">>
    [] OTHER            -> << >>

\* the value of one hexadecimal digit, -1 for any other character
HexVal(c) ==
  CASE c = "0" -> 0 [] c = "1" -> 1 [] c = "2" -> 2 [] c = "3" -> 3
    [] c = "4" -> 4 [] c = "5" -> 5 [] c = "6" -> 6 [] c = "7" -> 7
    [] c = "8" -> 8 [] c = "9" -> 9 [] c = "a" -> 10 [] c = "b" -> 11
    [] c = "c" -> 12 [] c = "d" -> 13 [] c = "e" -> 14 [] c = "f" -> 15
    [] OTHER -> -1

\* Number.NaN, which equals no chain id
NaN == -1

RECURSIVE ParseDigits(_, _, _)
\* the digits of s from position i on, up to the first character that is none
ParseDigits(s, i, acc) ==
  IF i > Len(s) \/ HexVal(LowerChar(s[i])) = -1
    THEN acc
    ELSE ParseDigits(s, i + 1, acc * 16 + HexVal(LowerChar(s[i])))

\* parseInt(s, 16): an optional 0x or 0X, then the longest run of hexadecimal
\* digits; NaN when there is none
ParseInt16(s) ==
  LET start == IF Len(s) >= 2 /\ s[1] = "0" /\ LowerChar(s[2]) = "x" THEN 3 ELSE 1
  IN IF start > Len(s) \/ HexVal(LowerChar(s[start])) = -1
       THEN NaN
       ELSE ParseDigits(s, start, 0)

HexDigit(d) ==
  CASE d = 0 -> "0" [] d = 1 -> "1" [] d = 2 -> "2" [] d = 3 -> "3"
    [] d = 4 -> "4" [] d = 5 -> "5" [] d = 6 -> "6" [] d = 7 -> "7"
    [] d = 8 -> "8" [] d = 9 -> "9" [] d = 10 -> "a" [] d = 11 -> "b"
    [] d = 12 -> "c" [] d = 13 -> "d" [] d = 14 -> "e" [] d = 15 -> "f"

RECURSIVE ToHex(_)
\* Number.prototype.toString(16) of a non-negative integer
ToHex(n) == IF n < 16 THEN HexDigit(n) ELSE ToHex(n \div 16) \o HexDigit(n % 16)

\* the introspection and chain switch requests a request event may carry
MethodInputs == {<<"wallet_switchEthereumChain", "0x1">>,
                 <<"wallet_switchEthereumChain", "0x89">>,
                 <<"wallet_switchEthereumChain", "0xA4B1">>,
                 <<"wallet_switchEthereumChain", "0x5d456c62">>,
                 <<"wallet_switchEthereumChain", "0x539">>,
                 <<"wallet_switchEthereumChain", "0x1zz">>,
                 <<"wallet_switchEthereumChain", "137">>,
                 <<"wallet_switchEthereumChain", "none">>,
                 <<"eth_chainId", "none">>,
                 <<"eth_accounts", "none">>}

\* the (method, argument) pairs a request event may carry
ReqInputs == {<<"personal_sign", "none">>,
              <<"eth_sendTransaction", "mint">>,
              <<"eth_sendTransaction", "mintUpper">>,
              <<"eth_sendTransaction", "transfer">>,
              <<"eth_chainId", "none">>,
              <<"eth_foo", "none">>}

VARIABLES
  activeSessions,    \* Map<string, session>: insertion-ordered entries [k, v]
  sessions,          \* heap of session objects, indexed by reference
  pendingProposals,  \* keys of the pendingProposals Map
  currentWalletId,
  autoMintEnabled,
  dbStatus,          \* wallets table: status column
  wantAuto,          \* autoSign argument of the latest pair() per wallet
  prop,              \* session_proposal handler invocations
  req,               \* session_request handler invocations
  del,               \* session_delete handler invocations
  pairs,             \* pair() invocations
  now,               \* simulated time, in ms
  tx,                \* the handleTransaction invocations
  chain,             \* the account on the chain: its transaction count
  pv,                \* the createProvider invocation
  wk,                \* walletKit and the getWalletKit invocations
  con,               \* connectWallet invocations
  emitted            \* what left the module, when observed: window events with
                     \* the stored log records, and relay responses

\* the state of the handlers and of pair
kitvars == <<activeSessions, sessions, pendingProposals, currentWalletId,
             autoMintEnabled, dbStatus, wantAuto, prop, req, del, pairs, now>>

\* the state of handleTransaction, createProvider, getWalletKit and connectWallet
libvars == <<tx, chain, pv, wk, con>>

vars == <<activeSessions, sessions, pendingProposals, currentWalletId,
          autoMintEnabled, dbStatus, wantAuto, prop, req, del, pairs, now,
          tx, chain, pv, wk, con, emitted>>

\* ------------------------------------------------------------ the Map
Wc(topic) == "wc:" \o topic

MapHas(m, k) == \E i \in 1..Len(m) : m[i].k = k
MapGet(m, k) ==
  IF MapHas(m, k) THEN m[CHOOSE i \in 1..Len(m) : m[i].k = k].v ELSE NoSession
MapSet(m, k, v) ==
  IF MapHas(m, k)
    THEN [i \in 1..Len(m) |-> IF m[i].k = k THEN [k |-> k, v |-> v] ELSE m[i]]
    ELSE Append(m, [k |-> k, v |-> v])
MapValues(m) == {m[i].v : i \in 1..Len(m)}

\* activeSessions.set(`wc:${topic}`, session); activeSessions.set(topic, session)
StoreTopic(m, topic, sid) == MapSet(MapSet(m, Wc(topic), sid), topic, sid)

\* for (const topic of session.topics) { set(wc:topic); set(topic) }
\* with session.topics = new Set([pairingTopic, proposalId])
PutSession(m, pairingTopic, proposalId, sid) ==
  StoreTopic(StoreTopic(m, pairingTopic, sid), proposalId, sid)

\* mutant: the lookup without the scan over every key
LookupSessionNoScan(m, topic) ==
  IF MapHas(m, Wc(topic)) THEN MapGet(m, Wc(topic)) ELSE MapGet(m, topic)

\* possibleKeys = [wc:topic, topic, ...keys]; the first key that is present
LookupSession(m, topic) ==
  IF MapHas(m, Wc(topic)) THEN MapGet(m, Wc(topic))
  ELSE IF MapHas(m, topic) THEN MapGet(m, topic)
  ELSE IF Len(m) > 0 THEN m[1].v
  ELSE NoSession

\* activeSessions.get(topic) || activeSessions.get(`wc:${topic}`)
FindForDelete(m, topic) ==
  IF MapHas(m, topic) THEN MapGet(m, topic) ELSE MapGet(m, Wc(topic))

\* for (const t of session.topics) { delete(t); delete(wc:t) }
RemoveTopics(m, topics) ==
  SelectSeq(m, LAMBDA e : e.k \notin (topics \cup {Wc(t) : t \in topics}))

\* ------------------------------------------------------------ emitLog, events
\* formatAddress: the first 6 and the last 4 characters around an ellipsis
FormatAddress(address) == "short:" \o address

\* the decrypted private keys of the wallets
Credentials == {DecryptedKey(w) : w \in Wallets}

Bool(b) == IF b THEN "true" ELSE "false"

\* one thing that left the module: a window event (a reown:log event is also
\* the stored log record), a relay response, or the console warning emitLog
\* gives instead of a log; sid is the session the handler was working for
Entry(channel, handler, message, walletId, sid, details) ==
  [channel |-> channel, handler |-> handler, message |-> message,
   walletId |-> walletId, sid |-> sid, details |-> details]

\* emitLog(type, message, details) with currentWalletId = focus
EmitLog(focus, handler, message, sid, details) ==
  IF focus = NoWallet
    THEN Entry("console.warn", handler, message, NoWallet, sid, {})
    ELSE Entry("reown:log", handler, message, focus, sid, details)

\* window.dispatchEvent(new CustomEvent(name, { detail }))
DispatchEvent(name, handler, sid, details) ==
  Entry(name, handler, "", NoWallet, sid, details)

\* kit.respondSessionRequest / kit.rejectSession: what is sent to the relay
RelaySend(handler, sid, details) == Entry("relay", handler, "", NoWallet, sid, details)

\* the observer's record after the entries were emitted
Record(new) == IF emitted.on THEN [emitted EXCEPT !.entries = @ \cup new] ELSE emitted

\* ------------------------------------------------------------ initial state
IdleProp ==
  [pc |-> "idle", id |-> NoId, topic |-> "", wallet |-> NoWallet,
   sid |-> NoSession, failed |-> FALSE, rejectCalls |-> 0]
IdleReq ==
  [pc |-> "idle", id |-> 0, topic |-> "", method |-> "", arg |-> "",
   sid |-> NoSession, decidedBy |-> 0, pendingSeen |-> {},
   autoSignSeen |-> FALSE, autoMintSeen |-> FALSE, wantAutoSeen |-> "unset",
   pairAutoSeen |-> "unset", aliasKnown |-> FALSE, registryEmpty |-> FALSE,
   surfaced |-> "no", decision |-> "none", listener |-> FALSE,
   timer |-> "none", waitStart |-> 0, endedAt |-> 0, resolvedBy |-> "none",
   dispatched |-> FALSE, result |-> "none", thrown |-> "none",
   responses |-> << >>, outcomes |-> << >>]
IdleDel == [pc |-> "idle", topic |-> "", target |-> NoSession, sid |-> NoSession]
IdlePair == [pc |-> "idle", wallet |-> NoWallet, autoSign |-> FALSE]

IdleTx ==
  [pc |-> "idle", gasLimit |-> 0, maxFeePerGas |-> 0, maxPriorityFeePerGas |-> 0,
   gasPrice |-> 0, feeIn |-> FALSE, nonceIn |-> FALSE, nonce |-> 0,
   attempt |-> 0, sent |-> << >>, hashes |-> << >>, errors |-> << >>,
   lastError |-> "none", delays |-> << >>,
   thrown |-> "none", result |-> "none"]
IdlePv ==
  [pc |-> "idle", network |-> "", attempt |-> 0, tests |-> 0, failures |-> 0,
   durations |-> << >>, delays |-> << >>, fallbackTests |-> 0,
   result |-> "none", error |-> "none"]
IdleCall == [pc |-> "idle", kit |-> NoKit, ret |-> NoKit]
IdleKit ==
  [walletKit |-> NoKit, projectId |-> TRUE, inits |-> 0, setups |-> 0,
   calls |-> [c \in 1..KitCalls |-> IdleCall]]

IdleCon ==
  [pc |-> "idle", wallet |-> NoWallet, network |-> "", autoSign |-> FALSE,
   rowStatus |-> "", rowNetwork |-> "", pair |-> 0, error |-> "none"]

\* nothing records what leaves the module
NoObserver == [on |-> FALSE, entries |-> {}]

\* the library state with nTx invocations of handleTransaction and nCon of
\* connectWallet, observed or not
InitLibWith(nTx, nCon, observed) ==
  /\ tx = [i \in 1..nTx |-> IdleTx]
  /\ chain = [count |-> 0]
  /\ pv = IdlePv
  /\ wk = IdleKit
  /\ con = [c \in 1..nCon |-> IdleCon]
  /\ emitted = [NoObserver EXCEPT !.on = observed]

InitLib == InitLibWith(1, 0, FALSE)

InitWith(nProp, nReq, nDel, nPair) ==
  /\ activeSessions = << >>
  /\ sessions = << >>
  /\ pendingProposals = {}
  /\ currentWalletId = NoWallet
  /\ autoMintEnabled = TRUE
  /\ dbStatus = [w \in Wallets |-> "created"]
  /\ wantAuto = [w \in Wallets |-> "unset"]
  /\ prop = [p \in 1..nProp |-> IdleProp]
  /\ req = [r \in 1..nReq |-> IdleReq]
  /\ del = [d \in 1..nDel |-> IdleDel]
  /\ pairs = [k \in 1..nPair |-> IdlePair]
  /\ now = 0

Init == InitWith(MaxProposals, MaxRequests, MaxDeletes, MaxPairs) /\ InitLib

\* ------------------------------------------------------------ session_proposal
\* event.id?.toString(), event.id.toString(), String(event.id): one decimal string
ProposalIdString(id) == ToString(id)

\* if (event.id): undefined and 0 are falsy
Truthy(id) == id # NoId /\ id # 0

\* catch block: if (event.id) { delete the pending entries; await kit.rejectSession }
ProposalCatch(p, rec) ==
  IF Truthy(rec.id)
    THEN /\ pendingProposals' = pendingProposals \ {ProposalIdString(rec.id)}
         /\ prop' = [prop EXCEPT ![p] = [rec EXCEPT !.pc = "rejecting",
                                                    !.failed = TRUE,
                                                    !.rejectCalls = @ + 1]]
    ELSE /\ UNCHANGED pendingProposals
         /\ prop' = [prop EXCEPT ![p] = [rec EXCEPT !.pc = "done", !.failed = TRUE]]

\* mutant: the whole session object is logged
StoringSessionDetailsWhole(session) ==
  {<<"topics", t>> : t \in session.topics}
    \cup {<<"address", session.address>>, <<"privateKey", session.privateKey>>,
          <<"walletId", session.walletId>>, <<"network", session.network>>}

\* { topics: Array.from(session.topics), address: formatAddress(session.address) }
StoringSessionDetails(session) ==
  {<<"topics", t>> : t \in session.topics}
    \cup {<<"address", FormatAddress(session.address)>>}

\* the log of updateWalletStatus(walletId, status)
StatusLog(focus, handler, sid, walletId, status, ok) ==
  IF ok THEN EmitLog(focus, handler, "Updated wallet status to " \o status, sid,
                     {<<"walletId", walletId>>})
        ELSE EmitLog(focus, handler, "Failed to update wallet status", sid,
                     {<<"error", "error">>})

\* what one step of the session_proposal handler emits, the step taking the
\* handler from old to new
ProposalEmits(old, new, focus) ==
  LET sid == new.sid
      id == ProposalIdString(new.id)
      received ==
        IF old.pc = "idle" /\ new.pc # "idle"
          THEN {EmitLog(focus, "proposal", "Received session proposal", sid,
                        {<<"id", id>>, <<"pairingTopic", new.topic>>})}
          ELSE {}
      fetched ==
        IF old.pc = "fetch" /\ new.pc = "decrypt"
          THEN {EmitLog(focus, "proposal", "Retrieved wallet details", sid,
                        {<<"address", FormatAddress(WalletAddress(new.wallet))>>,
                         <<"network", WalletNetwork(new.wallet)>>,
                         <<"chainId", ToString(WalletChainId(new.wallet))>>})}
          ELSE {}
      stored ==
        IF old.sid = NoSession /\ sid # NoSession
          THEN {EmitLog(focus, "proposal", "Storing session", sid,
                        StoringSessionDetails(sessions'[sid]))}
               \cup (IF new.pc = "approving"
                       THEN {EmitLog(focus, "proposal", "Approving session with namespaces",
                                     sid,
                                     {<<"chainId", ToString(ChainId(sessions'[sid].network))>>,
                                      <<"chainIdHex",
                                        "0x" \o ToHex(ChainId(sessions'[sid].network))>>,
                                      <<"network", sessions'[sid].network>>})}
                       ELSE {})
          ELSE {}
      approved ==
        IF old.pc = "status" /\ new.pc = "done"
          THEN {EmitLog(focus, "proposal", "Session approved", sid,
                        {<<"topics", t>> : t \in sessions[sid].topics}
                          \cup {<<"address", FormatAddress(sessions[sid].address)>>,
                                <<"chainId", ToString(ChainId(sessions[sid].network))>>,
                                <<"network", sessions[sid].network>>})}
          ELSE {}
      failed ==
        IF ~old.failed /\ new.failed
          THEN {EmitLog(focus, "proposal", "Session proposal failed", sid,
                        {<<"error", "error">>})}
               \cup (IF new.pc = "rejecting"
                       THEN {RelaySend("proposal", sid,
                                       {<<"id", id>>, <<"code", ToString(RejectionCode)>>,
                                        <<"message", "error">>})}
                       ELSE {})
          ELSE {}
  IN received \cup fetched \cup stored \cup approved \cup failed

\* what a step emits that takes the session_proposal handlers to prop'
ProposalsEmit ==
  UNION {ProposalEmits(prop[q], prop'[q], currentWalletId) : q \in DOMAIN prop}

\* the event arrives: validation, pendingProposals.set, wallet fetch issued
ProposalStart(p, id, pairingTopic) ==
  /\ prop[p].pc = "idle"
  /\ p > 1 => prop[p - 1].pc # "idle"
  /\ LET rec == [prop[p] EXCEPT !.id = id, !.topic = pairingTopic]
     IN IF pairingTopic = "" \/ id = NoId \/ currentWalletId = NoWallet
          THEN ProposalCatch(p, rec)
          ELSE /\ pendingProposals' = pendingProposals \cup {ProposalIdString(id)}
               /\ prop' = [prop EXCEPT ![p] = [rec EXCEPT !.pc = "fetch",
                                                          !.wallet = currentWalletId]]
  /\ UNCHANGED <<activeSessions, sessions, currentWalletId, autoMintEnabled,
                 dbStatus, wantAuto, req, del, pairs, now>>
  /\ UNCHANGED libvars
  /\ emitted' = Record(ProposalsEmit)

\* the wallet row arrives (or the fetch fails); decryptPrivateKey issued
ProposalFetched(p, ok) ==
  /\ prop[p].pc = "fetch"
  /\ IF ok
       THEN /\ prop' = [prop EXCEPT ![p].pc = "decrypt"]
            /\ UNCHANGED pendingProposals
       ELSE ProposalCatch(p, prop[p])
  /\ UNCHANGED <<activeSessions, sessions, currentWalletId, autoMintEnabled,
                 dbStatus, wantAuto, req, del, pairs, now>>
  /\ UNCHANGED libvars
  /\ emitted' = Record(ProposalsEmit)

NewSession(w) ==
  [walletId |-> w, address |-> WalletAddress(w), chainId |-> WalletChainId(w),
   privateKey |-> DecryptedKey(w), network |-> WalletNetwork(w), topics |-> {},
   autoSign |-> TRUE, established |-> FALSE, removed |-> FALSE,
   pairAuto |-> wantAuto[w]]

\* the key is decrypted: the session is created and stored, approveSession issued
ProposalDecrypted(p, ok) ==
  /\ prop[p].pc = "decrypt"
  /\ IF ok
       THEN LET sid == Len(sessions) + 1
                s == [NewSession(prop[p].wallet) EXCEPT
                        !.topics = {prop[p].topic, ProposalIdString(prop[p].id)}]
            IN /\ sessions' = Append(sessions, s)
               /\ activeSessions' =
                    PutSession(activeSessions, prop[p].topic,
                               ProposalIdString(prop[p].id), sid)
               /\ IF s.network \in NetworkIds
                    THEN /\ prop' = [prop EXCEPT ![p].pc = "approving", ![p].sid = sid]
                         /\ UNCHANGED pendingProposals
                    ELSE ProposalCatch(p, [prop[p] EXCEPT !.sid = sid])
       ELSE /\ ProposalCatch(p, prop[p])
            /\ UNCHANGED <<activeSessions, sessions>>
  /\ UNCHANGED <<currentWalletId, autoMintEnabled, dbStatus, wantAuto, req, del,
                 pairs, now>>
  /\ UNCHANGED libvars
  /\ emitted' = Record(ProposalsEmit)

\* approveSession settles; on success updateWalletStatus('connected') is issued
ProposalApproved(p, ok) ==
  /\ prop[p].pc = "approving"
  /\ IF ok
       THEN /\ prop' = [prop EXCEPT ![p].pc = "status"]
            /\ sessions' = [sessions EXCEPT ![prop[p].sid].established = TRUE]
            /\ UNCHANGED pendingProposals
       ELSE /\ ProposalCatch(p, prop[p])
            /\ UNCHANGED sessions
  /\ UNCHANGED <<activeSessions, currentWalletId, autoMintEnabled, dbStatus,
                 wantAuto, req, del, pairs, now>>
  /\ UNCHANGED libvars
  /\ emitted' = Record(ProposalsEmit)

\* updateWalletStatus settles (it swallows its own error); proposal entries deleted
ProposalStatusDone(p, ok) ==
  /\ prop[p].pc = "status"
  /\ dbStatus' = IF ok THEN [dbStatus EXCEPT ![prop[p].wallet] = "connected"]
                       ELSE dbStatus
  /\ pendingProposals' = pendingProposals \ {ProposalIdString(prop[p].id)}
  /\ prop' = [prop EXCEPT ![p].pc = "done"]
  /\ UNCHANGED <<activeSessions, sessions, currentWalletId, autoMintEnabled,
                 wantAuto, req, del, pairs, now>>
  /\ UNCHANGED libvars
  /\ emitted' = Record({StatusLog(currentWalletId, "proposal", prop[p].sid,
                                    prop[p].wallet, "connected", ok)}
                           \cup ProposalsEmit)

\* rejectSession settles; a rejection of it escapes the handler
ProposalRejectDone(p, ok) ==
  /\ prop[p].pc = "rejecting"
  /\ prop' = [prop EXCEPT ![p].pc = IF ok THEN "done" ELSE "unhandled"]
  /\ UNCHANGED <<activeSessions, sessions, pendingProposals, currentWalletId,
                 autoMintEnabled, dbStatus, wantAuto, req, del, pairs, now>>
  /\ UNCHANGED libvars
  /\ emitted' = Record(ProposalsEmit)

\* ------------------------------------------------------------ session_delete
\* the event arrives; the session is looked up, updateWalletStatus issued
DeleteStart(d, sid) ==
  /\ del[d].pc = "idle"
  /\ d > 1 => del[d - 1].pc # "idle"
  /\ sid \in 1..Len(sessions)
  /\ sessions[sid].established
  /\ LET topic == SessionTopic(sid)
         found == FindForDelete(activeSessions, topic)
     IN del' = [del EXCEPT ![d] = [pc |-> IF found = NoSession THEN "done" ELSE "status",
                                   topic |-> topic, target |-> sid, sid |-> found]]
  /\ UNCHANGED <<activeSessions, sessions, pendingProposals, currentWalletId,
                 autoMintEnabled, dbStatus, wantAuto, prop, req, pairs, now>>
  /\ UNCHANGED libvars
  /\ emitted' = Record({EmitLog(currentWalletId, "delete", "Session deleted",
                                  del'[d].sid, {<<"topic", del'[d].topic>>})})

\* updateWalletStatus('created') settles; every topic of the session is deleted
DeleteFinish(d, ok) ==
  /\ del[d].pc = "status"
  /\ dbStatus' = IF ok THEN [dbStatus EXCEPT ![sessions[del[d].sid].walletId] = "created"]
                       ELSE dbStatus
  /\ activeSessions' = RemoveTopics(activeSessions, sessions[del[d].sid].topics)
  /\ sessions' = [sessions EXCEPT ![del[d].sid].removed = TRUE]
  /\ del' = [del EXCEPT ![d].pc = "done"]
  /\ UNCHANGED <<pendingProposals, currentWalletId, autoMintEnabled,
                 wantAuto, prop, req, pairs, now>>
  /\ UNCHANGED libvars
  /\ emitted' =
       Record({StatusLog(currentWalletId, "delete", del[d].sid,
                         sessions[del[d].sid].walletId, "created", ok),
               EmitLog(currentWalletId, "delete", "Session cleanup completed", del[d].sid,
                       {<<"walletId", sessions[del[d].sid].walletId>>,
                        <<"address", FormatAddress(sessions[del[d].sid].address)>>})})

\* ------------------------------------------------------------ session_request
\* params.request.method === 'eth_sendTransaction' &&
\*   params.request.params[0]?.data?.toLowerCase().includes('0x40c10f19')
IsMintTransaction(method, arg) ==
  method = "eth_sendTransaction" /\ Includes(ToLowerCase(CallData(arg)), MintSelector)

\* mutant: the mint gate left out
ShouldAutoApproveNoMintGate(autoSign, isMint, autoMint) == autoSign

\* session.autoSign && (!isMintTransaction || autoMintEnabled)
ShouldAutoApprove(autoSign, isMint, autoMint) == autoSign /\ (~isMint \/ autoMint)

\* mutant: a 90-second timer
TimerDueShort(start) == start + 90000

\* setTimeout(..., 180000): the time at which the timer armed at `start` is due
TimerDue(start) == start + ApprovalTimeoutMs

\* mutant: handleResponse without clearTimeout
ClearTimeoutMissing(timer) == timer

\* clearTimeout(timeout) in handleResponse
ClearTimeout(timer) == IF timer = "armed" THEN "cleared" ELSE timer

\* catch block: outcome event success=false, then await respondSessionRequest(error)
Catch(rec) ==
  [rec EXCEPT !.pc = "catch",
              !.outcomes = Append(@, FALSE),
              !.responses = Append(@, [kind |-> "error", code |-> RejectionCode])]

\* end of the try block: outcome event success=true, await respondSessionRequest(result)
Succeed(rec) ==
  [rec EXCEPT !.pc = "responding",
              !.outcomes = Append(@, TRUE),
              !.responses = Append(@, [kind |-> "result", code |-> 0])]

\* mutant: every chain id is taken as supported
FindNetworkAlways(chainId) == TRUE

\* networks.find(n => n.chainId === requestedChainId) finds an entry
FindNetwork(chainId) == \E n \in NetworkIds : ChainId(n) = chainId

\* const chainId = network.useEthereumWallet ? 1 : network.chainId;
\* result = `0x${chainId.toString(16)}` with network the entry of session.network
ChainIdAnswer(session) ==
  "0x" \o ToHex(IF UseEthereumWallet(session.network) THEN 1
                                                      ELSE ChainId(session.network))

\* switch (params.request.method)
RunMethod(rec) ==
  LET run == [rec EXCEPT !.dispatched = TRUE]
  IN CASE rec.method \in {"personal_sign", "eth_sendTransaction"} ->
            [run EXCEPT !.pc = "dispatching"]
       [] rec.method = "wallet_switchEthereumChain" ->
            IF FindNetwork(ParseInt16(ChainIdParam(rec.arg)))
              THEN Succeed([run EXCEPT !.result = "null"])
              ELSE Catch([run EXCEPT !.thrown = "unsupportedChain"])
       [] rec.method = "eth_accounts" ->
            Succeed([run EXCEPT !.result = sessions[rec.sid].address])
       [] rec.method = "eth_chainId" ->
            Succeed([run EXCEPT !.result = ChainIdAnswer(sessions[rec.sid])])
       [] OTHER -> Catch([run EXCEPT !.thrown = "unsupportedMethod"])

\* mutant: the approved check left out
DispatchUnchecked(rec, approved) == RunMethod(rec)

\* if (!approved) throw new Error('User rejected request'); switch (...)
Dispatch(rec, approved) == IF ~approved THEN Catch(rec) ELSE RunMethod(rec)

\* the result of signMessage / handleTransaction
DispatchResult(method, session) ==
  IF method = "personal_sign" THEN "signature:" \o session.address ELSE "txhash"

\* error instanceof Error ? error.message : 'Unknown error'
ErrorMessage(thrown) == IF thrown = "none" THEN "error" ELSE thrown

\* the emitLog calls of the switch branch that is entered
MethodLogs(rec, focus) ==
  CASE rec.method = "personal_sign" ->
         {EmitLog(focus, "request", "Signing message", rec.sid, {<<"message", rec.arg>>})}
    [] rec.method = "eth_sendTransaction" ->
         {EmitLog(focus, "request", "Processing transaction request", rec.sid,
                  {<<"data", rec.arg>>})}
    [] rec.method = "wallet_switchEthereumChain" ->
         {EmitLog(focus, "request", "Switching chain", rec.sid,
                  {<<"chainId", rec.arg>>,
                   <<"requestedChainId", ToString(ParseInt16(ChainIdParam(rec.arg)))>>})}
         \cup (IF rec.result = "null"
                 THEN {EmitLog(focus, "request", "Chain switch allowed", rec.sid,
                               {<<"requestedChain",
                                  ToString(ParseInt16(ChainIdParam(rec.arg)))>>})}
                 ELSE {})
    [] OTHER -> {}

\* what one step of the session_request handler emits, the step taking the
\* handler from old to new
RequestEmits(old, new, focus) ==
  LET sid == new.sid
      id == ToString(new.id)
      received ==
        IF old.pc = "idle" /\ new.pc # "idle"
          THEN {EmitLog(focus, "request", "Received session request", sid,
                        {<<"topic", new.topic>>, <<"id", id>>,
                         <<"method", new.method>>, <<"params", new.arg>>})}
               \cup (IF sid = NoSession
                       THEN {EmitLog(focus, "request", "Session not found", sid,
                                     {<<"topic", new.topic>>}
                                       \cup {<<"availableSessions", activeSessions[i].k>> :
                                               i \in 1..Len(activeSessions)})}
                       ELSE {})
          ELSE {}
      surfaced ==
        IF old.surfaced = "no" /\ new.surfaced # "no"
          THEN {DispatchEvent("reown:request", "request", sid,
                              {<<"id", id>>, <<"method", new.method>>,
                               <<"params", new.arg>>,
                               <<"pending", Bool(new.surfaced = "pending")>>})}
               \cup (IF new.pc = "waiting"
                       THEN {EmitLog(focus, "request", "Waiting for user approval", sid,
                                     {<<"method", new.method>>,
                                      <<"address", FormatAddress(sessions[sid].address)>>})}
                       ELSE {})
          ELSE {}
      dispatch == IF ~old.dispatched /\ new.dispatched THEN MethodLogs(new, focus) ELSE {}
      settled == Len(new.outcomes) > Len(old.outcomes)
      succeeded ==
        IF settled /\ new.outcomes[Len(new.outcomes)]
          THEN {DispatchEvent("reown:response", "request", sid,
                              {<<"id", id>>, <<"success", "true">>}),
                EmitLog(focus, "request", "Sending response", sid,
                        {<<"topic", new.topic>>, <<"id", id>>, <<"result", new.result>>}),
                RelaySend("request", sid,
                          {<<"topic", new.topic>>, <<"id", id>>, <<"result", new.result>>})}
          ELSE {}
      failed ==
        IF settled /\ ~new.outcomes[Len(new.outcomes)]
          THEN {EmitLog(focus, "request", "Request failed", sid,
                        {<<"error", ErrorMessage(new.thrown)>>}),
                DispatchEvent("reown:response", "request", sid,
                              {<<"id", id>>, <<"success", "false">>,
                               <<"error", ErrorMessage(new.thrown)>>}),
                RelaySend("request", sid,
                          {<<"topic", new.topic>>, <<"id", id>>,
                           <<"code", ToString(RejectionCode)>>,
                           <<"message", ErrorMessage(new.thrown)>>})}
          ELSE {}
      completed ==
        IF old.pc = "responding" /\ new.pc = "done"
          THEN {EmitLog(focus, "request", "Request completed", sid,
                        {<<"method", new.method>>,
                         <<"address", FormatAddress(sessions[sid].address)>>})}
          ELSE {}
  IN received \cup surfaced \cup dispatch \cup succeeded \cup failed \cup completed

\* what a step emits that takes the session_request handlers to req'
RequestsEmit ==
  Record(UNION {RequestEmits(req[q], req'[q], currentWalletId) : q \in DOMAIN req})

\* request.id: the relay numbers its requests
RequestId(r) == r

\* the event arrives: topic lookup, alias growth, createProvider issued
RequestStart(r, topic, input) ==
  /\ req[r].pc = "idle"
  /\ r > 1 => req[r - 1].pc # "idle"
  /\ LET sid == LookupSession(activeSessions, topic)
         rec == [req[r] EXCEPT !.id = RequestId(r),
                               !.pendingSeen = {q \in DOMAIN req :
                                                  req[q].pc = "waiting"},
                               !.topic = topic, !.method = input[1],
                               !.arg = input[2], !.sid = sid,
                               !.aliasKnown = MapHas(activeSessions, Wc(topic))
                                                \/ MapHas(activeSessions, topic),
                               !.registryEmpty = (Len(activeSessions) = 0)]
     IN IF sid = NoSession
          THEN /\ req' = [req EXCEPT ![r] = Catch(rec)]
               /\ UNCHANGED <<activeSessions, sessions>>
          ELSE /\ sessions' = [sessions EXCEPT ![sid].topics = @ \cup {topic}]
               /\ activeSessions' = StoreTopic(activeSessions, topic, sid)
               /\ req' = [req EXCEPT ![r] =
                            IF sessions[sid].network \in NetworkIds
                              THEN [rec EXCEPT !.pc = "provider"]
                              ELSE Catch(rec)]
  /\ UNCHANGED <<pendingProposals, currentWalletId, autoMintEnabled, dbStatus,
                 wantAuto, prop, del, pairs, now>>
  /\ UNCHANGED libvars
  /\ emitted' = RequestsEmit

\* createProvider settles: classification, reown:request, auto-dispatch or wait
RequestProvider(r, ok) ==
  /\ req[r].pc = "provider"
  /\ LET s == sessions[req[r].sid]
         isMint == IsMintTransaction(req[r].method, req[r].arg)
         auto == ShouldAutoApprove(s.autoSign, isMint, autoMintEnabled)
         rec == [req[r] EXCEPT !.autoSignSeen = s.autoSign,
                               !.autoMintSeen = autoMintEnabled,
                               !.wantAutoSeen = wantAuto[s.walletId],
                               !.pairAutoSeen = s.pairAuto,
                               !.surfaced = IF auto THEN "auto" ELSE "pending"]
     IN req' = [req EXCEPT ![r] =
                  IF ~ok THEN Catch(req[r])
                  ELSE IF auto THEN Dispatch(rec, TRUE)
                  ELSE [rec EXCEPT !.pc = "waiting", !.listener = TRUE,
                                   !.timer = "armed", !.waitStart = now]]
  /\ UNCHANGED <<activeSessions, sessions, pendingProposals, currentWalletId,
                 autoMintEnabled, dbStatus, wantAuto, prop, del, pairs, now>>
  /\ UNCHANGED libvars
  /\ emitted' = RequestsEmit

\* mutant: handleResponse without the comparison of the ids
IdMatchesAny(eventId, requestId) == TRUE

\* event.detail.id === request.id
IdMatches(eventId, requestId) == eventId = requestId

\* handleResponse of one request: on its own id it clears the timer, removes the
\* listener and resolves the wait, which has an effect only while the wait is open
HandleResponse(rec, eventId, approve) ==
  IF ~rec.listener \/ ~IdMatches(eventId, rec.id) THEN rec
  ELSE LET heard == [rec EXCEPT !.listener = FALSE, !.timer = ClearTimeout(@)]
       IN IF rec.pc = "waiting"
            THEN Dispatch([heard EXCEPT !.decision = IF approve THEN "approve"
                                                     ELSE "reject",
                                        !.resolvedBy = "decision",
                                        !.decidedBy = eventId,
                                        !.endedAt = now],
                          approve)
            ELSE heard

\* a reown:signature event reaches every registered handleResponse listener
RequestDecision(eventId, approve) ==
  /\ \E q \in DOMAIN req : req[q].listener /\ IdMatches(eventId, req[q].id)
  /\ req' = [q \in DOMAIN req |-> HandleResponse(req[q], eventId, approve)]
  /\ UNCHANGED <<activeSessions, sessions, pendingProposals, currentWalletId,
                 autoMintEnabled, dbStatus, wantAuto, prop, del, pairs, now>>
  /\ UNCHANGED libvars
  /\ emitted' = RequestsEmit

\* the approval timer fires: reject(new Error('Request timed out'))
RequestTimeout(r) ==
  /\ req[r].timer = "armed"
  /\ now >= TimerDue(req[r].waitStart)
  /\ LET rec == [req[r] EXCEPT !.timer = "fired"]
     IN req' = [req EXCEPT ![r] =
                  IF req[r].pc = "waiting"
                    THEN Catch([rec EXCEPT !.resolvedBy = "timeout", !.endedAt = now])
                    ELSE rec]
  /\ UNCHANGED <<activeSessions, sessions, pendingProposals, currentWalletId,
                 autoMintEnabled, dbStatus, wantAuto, prop, del, pairs, now>>
  /\ UNCHANGED libvars
  /\ emitted' = RequestsEmit

\* signMessage / handleTransaction settles
RequestDispatchDone(r, ok) ==
  /\ req[r].pc = "dispatching"
  /\ req' = [req EXCEPT ![r] =
               IF ok THEN Succeed([req[r] EXCEPT !.result =
                                     DispatchResult(req[r].method, sessions[req[r].sid])])
                     ELSE Catch(req[r])]
  /\ UNCHANGED <<activeSessions, sessions, pendingProposals, currentWalletId,
                 autoMintEnabled, dbStatus, wantAuto, prop, del, pairs, now>>
  /\ UNCHANGED libvars
  /\ emitted' = RequestsEmit

\* respondSessionRequest of the try block settles; its rejection enters the catch
RequestRespondDone(r, ok) ==
  /\ req[r].pc = "responding"
  /\ req' = [req EXCEPT ![r] = IF ok THEN [req[r] EXCEPT !.pc = "done"]
                                     ELSE Catch(req[r])]
  /\ UNCHANGED <<activeSessions, sessions, pendingProposals, currentWalletId,
                 autoMintEnabled, dbStatus, wantAuto, prop, del, pairs, now>>
  /\ UNCHANGED libvars
  /\ emitted' = RequestsEmit

\* respondSessionRequest of the catch block settles; its rejection escapes
RequestCatchDone(r, ok) ==
  /\ req[r].pc = "catch"
  /\ req' = [req EXCEPT ![r].pc = IF ok THEN "done" ELSE "unhandled"]
  /\ UNCHANGED <<activeSessions, sessions, pendingProposals, currentWalletId,
                 autoMintEnabled, dbStatus, wantAuto, prop, del, pairs, now>>
  /\ UNCHANGED libvars
  /\ emitted' = RequestsEmit

\* ------------------------------------------------------------ pair and setters
\* emitLog('info', 'Starting pairing', { walletId, autoSign, autoMint, uri: maskedUri })
StartingPairing(focus, w, autoSign, autoMint) ==
  EmitLog(focus, "pair", "Starting pairing", NoSession,
          {<<"walletId", w>>, <<"autoSign", Bool(autoSign)>>,
           <<"autoMint", Bool(autoMint)>>, <<"uri", "masked">>})

\* the log of setCurrentWalletId(walletId), made once the focus is walletId
CurrentWalletSet(w) ==
  IF w = NoWallet THEN {}
  ELSE {EmitLog(w, "setter", "Current wallet set", NoSession, {<<"walletId", w>>})}

\* pair(uri, walletId, autoSign, autoMint): up to await getWalletKit()
PairCall(k, w, autoSign, autoMint) ==
  /\ pairs[k].pc = "idle"
  /\ k > 1 => pairs[k - 1].pc # "idle"
  /\ autoMintEnabled' = autoMint
  /\ pairs' = [pairs EXCEPT ![k] = [pc |-> "kit", wallet |-> w, autoSign |-> autoSign]]
  /\ UNCHANGED <<activeSessions, sessions, pendingProposals, currentWalletId,
                 dbStatus, wantAuto, prop, req, del, now>>
  /\ UNCHANGED libvars
  /\ emitted' = Record({StartingPairing(currentWalletId, w, autoSign, autoMint)})

\* getWalletKit settles: setCurrentWalletId, the autoSign update loop, kit.pair issued
PairKitReady(k, ok) ==
  /\ pairs[k].pc = "kit"
  /\ IF ok
       THEN /\ currentWalletId' = pairs[k].wallet
            /\ sessions' = [i \in 1..Len(sessions) |->
                              IF /\ i \in MapValues(activeSessions)
                                 /\ sessions[i].walletId = pairs[k].wallet
                                THEN [sessions[i] EXCEPT !.autoSign = pairs[k].autoSign]
                                ELSE sessions[i]]
            /\ wantAuto' = [wantAuto EXCEPT ![pairs[k].wallet] =
                              IF pairs[k].autoSign THEN "on" ELSE "off"]
            /\ pairs' = [pairs EXCEPT ![k].pc = "pairing"]
       ELSE /\ pairs' = [pairs EXCEPT ![k].pc = "failed"]
            /\ UNCHANGED <<currentWalletId, sessions, wantAuto>>
  /\ UNCHANGED <<activeSessions, pendingProposals, autoMintEnabled, dbStatus,
                 prop, req, del, now>>
  /\ UNCHANGED libvars
  /\ emitted' =
       Record(IF ok
                THEN CurrentWalletSet(pairs[k].wallet)
                     \cup {EmitLog(pairs[k].wallet, "pair",
                                   "Updated auto-sign setting for session",
                                   activeSessions[i].v,
                                   {<<"topic", activeSessions[i].k>>,
                                    <<"autoSign", Bool(pairs[k].autoSign)>>}) :
                             i \in {j \in 1..Len(activeSessions) :
                                      sessions[activeSessions[j].v].walletId
                                        = pairs[k].wallet}}
                ELSE {EmitLog(currentWalletId, "pair", "Pairing failed", NoSession,
                              {<<"error", "error">>})})

\* kit.pair settles
PairDone(k, ok) ==
  /\ pairs[k].pc = "pairing"
  /\ pairs' = [pairs EXCEPT ![k].pc = IF ok THEN "done" ELSE "failed"]
  /\ UNCHANGED <<activeSessions, sessions, pendingProposals, currentWalletId,
                 autoMintEnabled, dbStatus, wantAuto, prop, req, del, now>>
  /\ UNCHANGED libvars
  /\ emitted' =
       Record({IF ok THEN EmitLog(currentWalletId, "pair", "Pairing initiated",
                                  NoSession, {})
                     ELSE EmitLog(currentWalletId, "pair", "Pairing failed",
                                  NoSession, {<<"error", "error">>})})

SetCurrentWalletId(w) ==
  /\ currentWalletId # w
  /\ currentWalletId' = w
  /\ UNCHANGED <<activeSessions, sessions, pendingProposals, autoMintEnabled,
                 dbStatus, wantAuto, prop, req, del, pairs, now>>
  /\ UNCHANGED libvars
  /\ emitted' = Record(CurrentWalletSet(w))

SetAutoMint(enabled) ==
  /\ autoMintEnabled # enabled
  /\ autoMintEnabled' = enabled
  /\ UNCHANGED <<activeSessions, sessions, pendingProposals, currentWalletId,
                 dbStatus, wantAuto, prop, req, del, pairs, now>>
  /\ UNCHANGED libvars
  /\ emitted' =
       Record({EmitLog(currentWalletId, "setter",
                       IF enabled THEN "Auto-mint enabled" ELSE "Auto-mint disabled",
                       NoSession, {})})

\* ------------------------------------------------------------ connectWallet
\* pair(uri, walletId, autoSign, autoMint = true): the default of the 4th parameter
DefaultAutoMint == TRUE

\* the first pair() invocation not yet used, 0 when there is none
FreePair ==
  IF \E k \in DOMAIN pairs : pairs[k].pc = "idle"
    THEN CHOOSE k \in DOMAIN pairs :
           pairs[k].pc = "idle" /\ \A j \in 1..(k - 1) : pairs[j].pc # "idle"
    ELSE 0

\* connectWallet(uri, walletId, network, autoSign): the uri check, then the
\* wallet row is requested from the database
ConnectCall(c, uriOk, w, n, autoSign) ==
  /\ con[c].pc = "idle"
  /\ c > 1 => con[c - 1].pc # "idle"
  /\ con' = [con EXCEPT ![c] =
               [con[c] EXCEPT !.wallet = w, !.network = n, !.autoSign = autoSign,
                              !.pc = IF uriOk THEN "fetch" ELSE "failed",
                              !.error = IF uriOk THEN "none" ELSE "uri"]]
  /\ UNCHANGED <<tx, chain, pv, wk>>
  /\ UNCHANGED kitvars
  /\ UNCHANGED emitted

\* the database answers the query: the row as it is at that moment, or an error
ConnectRowServed(c, ok) ==
  /\ con[c].pc = "fetch"
  /\ con' = [con EXCEPT ![c] =
               IF ok THEN [con[c] EXCEPT !.pc = "row",
                                         !.rowStatus = dbStatus[con[c].wallet],
                                         !.rowNetwork = WalletNetwork(con[c].wallet)]
                     ELSE [con[c] EXCEPT !.pc = "row", !.rowStatus = "error"]]
  /\ UNCHANGED <<tx, chain, pv, wk>>
  /\ UNCHANGED kitvars
  /\ UNCHANGED emitted

\* the answer reaches connectWallet: the checks on the row, setCurrentWalletId,
\* and pair(reownUri, walletId, autoSign) up to its await getWalletKit()
ConnectFetched(c) ==
  /\ con[c].pc = "row"
  /\ IF con[c].rowStatus = "error"
       THEN /\ con' = [con EXCEPT ![c].pc = "failed", ![c].error = "fetch"]
            /\ UNCHANGED <<currentWalletId, autoMintEnabled, pairs>>
     ELSE IF con[c].rowNetwork # con[c].network
       THEN /\ con' = [con EXCEPT ![c].pc = "failed", ![c].error = "mismatch"]
            /\ UNCHANGED <<currentWalletId, autoMintEnabled, pairs>>
     ELSE IF con[c].rowStatus = "connected"
       THEN /\ con' = [con EXCEPT ![c].pc = "failed", ![c].error = "connected"]
            /\ UNCHANGED <<currentWalletId, autoMintEnabled, pairs>>
     ELSE /\ FreePair # 0
          /\ currentWalletId' = con[c].wallet
          /\ autoMintEnabled' = DefaultAutoMint
          /\ pairs' = [pairs EXCEPT ![FreePair] =
                         [pc |-> "kit", wallet |-> con[c].wallet,
                          autoSign |-> con[c].autoSign]]
          /\ con' = [con EXCEPT ![c].pc = "pairing", ![c].pair = FreePair]
  /\ UNCHANGED <<activeSessions, sessions, pendingProposals, dbStatus, wantAuto,
                 prop, req, del, now>>
  /\ UNCHANGED <<tx, chain, pv, wk>>
  /\ emitted' =
       Record(IF con'[c].pc = "pairing"
                THEN CurrentWalletSet(con[c].wallet)
                     \cup {StartingPairing(con[c].wallet, con[c].wallet,
                                           con[c].autoSign, DefaultAutoMint)}
                ELSE {})

\* pair settles: connectWallet returns, or rethrows pair's error
ConnectPaired(c) ==
  /\ con[c].pc = "pairing"
  /\ pairs[con[c].pair].pc \in {"done", "failed"}
  /\ con' = [con EXCEPT ![c].pc = IF pairs[con[c].pair].pc = "done" THEN "done"
                                                                     ELSE "failed",
                         ![c].error = IF pairs[con[c].pair].pc = "done" THEN "none"
                                                                        ELSE "pair"]
  /\ UNCHANGED <<tx, chain, pv, wk>>
  /\ UNCHANGED kitvars
  /\ UNCHANGED emitted

\* ------------------------------------------------------------ handleTransaction
\* tx.gas, estimateGas results, fee inputs and fee data the environment supplies
GasInputs == {1, 21000, 21001}
EstimateInputs == {50000}
FeeInputs == {0, 7, 100}

\* x * BigInt(12) / BigInt(10) on BigInt: the quotient is truncated; written as
\* x + x / 5, the same integer for every x >= 0, to stay within machine integers
Bump(x) == x + (x \div 5)

\* mutant: the retry branch taken after the last attempt too
ShouldRetryAlways(attempt) == TRUE

\* if (attempt < MAX_RETRIES - 1)
ShouldRetry(attempt) == attempt < MAX_RETRIES - 1

\* mutant: a backoff that starts at two seconds
BackoffMsFromTwo(attempt) == 1000 * 2^(attempt + 1)

\* 1000 * Math.pow(2, attempt)
BackoffMs(attempt) == 1000 * 2^attempt

\* the parameters wallet.sendTransaction(txParams) is given
TxParams(rec) ==
  [gasLimit |-> rec.gasLimit, maxFeePerGas |-> rec.maxFeePerGas,
   maxPriorityFeePerGas |-> rec.maxPriorityFeePerGas, gasPrice |-> rec.gasPrice,
   nonce |-> rec.nonce]

\* a loop iteration begins: await wallet.sendTransaction(txParams)
Send(rec) == [rec EXCEPT !.pc = "sending", !.sent = Append(@, TxParams(rec))]

\* attempt++ and the loop test; after the loop: throw lastError
LoopNext(rec) ==
  IF rec.attempt + 1 < MAX_RETRIES
    THEN Send([rec EXCEPT !.attempt = @ + 1])
    ELSE [rec EXCEPT !.attempt = @ + 1, !.pc = "failed", !.thrown = rec.lastError]

\* the gas limit and the fee fields in use grow for the next attempt
BumpParams(rec) ==
  LET g == [rec EXCEPT !.gasLimit = Bump(@)]
  IN IF rec.maxFeePerGas # 0
       THEN [g EXCEPT !.maxFeePerGas = Bump(@), !.maxPriorityFeePerGas = Bump(@)]
     ELSE IF rec.gasPrice # 0 THEN [g EXCEPT !.gasPrice = Bump(@)]
     ELSE g

\* catch block of one attempt
AttemptFailed(rec, kind) ==
  LET e == kind \o ToString(rec.attempt + 1)
      failed == [rec EXCEPT !.errors = Append(@, e), !.lastError = e]
  IN IF ShouldRetry(rec.attempt)
       THEN [BumpParams(failed) EXCEPT !.delays = Append(@, BackoffMs(rec.attempt)),
                                       !.pc = "backoff"]
       ELSE LoopNext(failed)

\* nonce: tx.nonce when given, else await provider.getTransactionCount
AfterFees(rec) == IF rec.nonceIn THEN Send(rec) ELSE [rec EXCEPT !.pc = "nonce"]

\* fees: the caller's pair when both are given, else await provider.getFeeData
AfterGas(rec) == IF rec.feeIn THEN AfterFees(rec) ELSE [rec EXCEPT !.pc = "feeData"]

\* tx.nonce values a caller supplies
NonceInputs == {5}

\* handleTransaction(wallet, provider, tx) is called
TxCall(i, hasGas, gas, hasFees, fee, hasNonce, nonce) ==
  /\ tx[i].pc = "idle"
  /\ i > 1 => tx[i - 1].pc # "idle"
  /\ LET rec == [tx[i] EXCEPT !.feeIn = hasFees, !.nonceIn = hasNonce,
                              !.nonce = IF hasNonce THEN nonce ELSE 0,
                              !.maxFeePerGas = IF hasFees THEN fee ELSE 0,
                              !.maxPriorityFeePerGas = IF hasFees THEN fee ELSE 0]
     IN tx' = [tx EXCEPT ![i] = IF hasGas THEN AfterGas([rec EXCEPT !.gasLimit = gas])
                                          ELSE [rec EXCEPT !.pc = "estimate"]]
  /\ UNCHANGED <<chain, pv, wk, con>>
  /\ UNCHANGED kitvars
  /\ UNCHANGED emitted

\* provider.estimateGas settles: the estimate plus 20%, or the fixed default
TxEstimated(i, ok, estimate) ==
  /\ tx[i].pc = "estimate"
  /\ tx' = [tx EXCEPT ![i] =
              AfterGas([tx[i] EXCEPT !.gasLimit = IF ok THEN Bump(estimate)
                                                       ELSE DefaultGasLimit])]
  /\ UNCHANGED <<chain, pv, wk, con>>
  /\ UNCHANGED kitvars
  /\ UNCHANGED emitted

\* provider.getFeeData settles: EIP-1559 fees, a legacy price only, or a failure
TxFeeData(i, kind, fee) ==
  /\ tx[i].pc = "feeData"
  /\ tx' = [tx EXCEPT ![i] =
              CASE kind = "eip1559" ->
                     AfterFees([tx[i] EXCEPT !.maxFeePerGas = Bump(fee),
                                             !.maxPriorityFeePerGas = Bump(fee)])
                [] kind = "legacy" -> [tx[i] EXCEPT !.pc = "gasPrice"]
                [] OTHER -> AfterFees([tx[i] EXCEPT !.gasPrice = OneGwei])]
  /\ UNCHANGED <<chain, pv, wk, con>>
  /\ UNCHANGED kitvars
  /\ UNCHANGED emitted

\* provider.getGasPrice settles; its failure is caught with the fee query's
TxGasPrice(i, ok, price) ==
  /\ tx[i].pc = "gasPrice"
  /\ tx' = [tx EXCEPT ![i] =
              AfterFees([tx[i] EXCEPT !.gasPrice = IF ok THEN Bump(price)
                                                      ELSE OneGwei])]
  /\ UNCHANGED <<chain, pv, wk, con>>
  /\ UNCHANGED kitvars
  /\ UNCHANGED emitted

\* provider.getTransactionCount settles with the account's count; its failure
\* ends handleTransaction
TxNonce(i, ok) ==
  /\ tx[i].pc = "nonce"
  /\ tx' = [tx EXCEPT ![i] =
              IF ok THEN Send([tx[i] EXCEPT !.nonce = chain.count])
                    ELSE [tx[i] EXCEPT !.pc = "failed", !.thrown = "nonce"]]
  /\ UNCHANGED <<chain, pv, wk, con>>
  /\ UNCHANGED kitvars
  /\ UNCHANGED emitted

\* wallet.sendTransaction settles: a response with a hash, or an error
TxSent(i, ok) ==
  /\ tx[i].pc = "sending"
  /\ tx' = [tx EXCEPT ![i] =
              IF ok THEN [tx[i] EXCEPT !.pc = "confirming",
                                       !.hashes = Append(@, tx[i].attempt + 1)]
                    ELSE AttemptFailed(tx[i], "send")]
  /\ UNCHANGED <<chain, pv, wk, con>>
  /\ UNCHANGED kitvars
  /\ UNCHANGED emitted

\* response.wait settles: the transaction is mined and response.hash returned,
\* or the wait fails
TxConfirmed(i, ok) ==
  /\ tx[i].pc = "confirming"
  /\ tx' = [tx EXCEPT ![i] =
              IF ok THEN [tx[i] EXCEPT !.pc = "returned",
                                       !.result = "hash" \o ToString(tx[i].attempt + 1)]
                    ELSE AttemptFailed(tx[i], "wait")]
  /\ chain' = IF ok THEN [chain EXCEPT !.count = @ + 1] ELSE chain
  /\ UNCHANGED <<pv, wk, con>>
  /\ UNCHANGED kitvars
  /\ UNCHANGED emitted

\* the backoff timer fires
TxBackoffDone(i) ==
  /\ tx[i].pc = "backoff"
  /\ tx' = [tx EXCEPT ![i] = LoopNext(tx[i])]
  /\ UNCHANGED <<chain, pv, wk, con>>
  /\ UNCHANGED kitvars
  /\ UNCHANGED emitted

\* ------------------------------------------------------------ createProvider
\* networkMap of createBlastApiProvider: the ids the aggregator serves
BlastNetworks == {"ethereum", "bnb", "polygon", "arbitrum", "avalanche", "base",
                  "linea", "blast", "celo"}

\* network.rpcUrl: every descriptor of the networks list carries one
HasRpcUrl(n) == n \in NetworkIds

\* the time provider.getNetwork() takes to settle: quick, or never within reach
ResponseTimes == {200, 30000}

\* Promise.race([networkPromise, timeoutPromise]): the first to settle decides
RaceDuration(responseMs) ==
  IF responseMs < ConnectTimeoutMs THEN responseMs ELSE ConnectTimeoutMs
RaceSucceeds(responseMs, responseOk) == responseMs < ConnectTimeoutMs /\ responseOk

\* mutant: a wait after the last attempt as well
ShouldBackoffAlways(attempt) == TRUE

\* if (attempt < 3)
ShouldBackoff(attempt) == attempt < MaxConnectAttempts

\* 1000 * Math.pow(2, attempt - 1)
ConnectBackoffMs(attempt) == 1000 * 2^(attempt - 1)

\* a loop iteration begins: provider.getNetwork() raced against the 10 s timer
StartTest(rec) == [rec EXCEPT !.pc = "testing", !.tests = @ + 1]

\* createProvider's catch: the fallback RPC when the descriptor has one
BlastFailed(rec) ==
  IF HasRpcUrl(rec.network)
    THEN [rec EXCEPT !.pc = "fallback", !.fallbackTests = @ + 1]
    ELSE [rec EXCEPT !.pc = "failed", !.error = "Failed to connect to provider for "
                                                   \o rec.network]

\* attempt++ and the loop test; after the loop: throw lastError
ConnectLoopNext(rec) ==
  IF rec.attempt + 1 <= MaxConnectAttempts
    THEN StartTest([rec EXCEPT !.attempt = @ + 1])
    ELSE BlastFailed([rec EXCEPT !.attempt = @ + 1])

\* createProvider(network) is called
CreateProviderCall(n) ==
  /\ pv.pc = "idle"
  /\ pv' = [pv EXCEPT !.network = n,
                      !.pc = IF n = "skale" THEN "skaleTest" ELSE "key"]
  /\ UNCHANGED <<tx, chain, wk, con>>
  /\ UNCHANGED kitvars
  /\ UNCHANGED emitted

\* the SKALE self-test settles: its failure is logged, the provider is returned
SkaleTested(ok) ==
  /\ pv.pc = "skaleTest"
  /\ pv' = [pv EXCEPT !.pc = "returned", !.result = "direct"]
  /\ UNCHANGED <<tx, chain, wk, con>>
  /\ UNCHANGED kitvars
  /\ UNCHANGED emitted

\* getBlastApiKey settles; with a key createBlastApiProvider begins
KeyFetched(hasKey) ==
  /\ pv.pc = "key"
  /\ pv' = IF ~hasKey
             THEN [pv EXCEPT !.pc = "failed", !.error = "No BlastAPI key found"]
           ELSE IF pv.network \notin BlastNetworks THEN BlastFailed(pv)
           ELSE StartTest([pv EXCEPT !.attempt = 1])
  /\ UNCHANGED <<tx, chain, wk, con>>
  /\ UNCHANGED kitvars
  /\ UNCHANGED emitted

\* the race of one attempt settles
TestSettled(responseMs, responseOk) ==
  /\ pv.pc = "testing"
  /\ LET timed == [pv EXCEPT !.durations = Append(@, RaceDuration(responseMs))]
         failed == [timed EXCEPT !.failures = @ + 1]
     IN pv' = IF RaceSucceeds(responseMs, responseOk)
                THEN [timed EXCEPT !.pc = "returned", !.result = "aggregator"]
              ELSE IF ShouldBackoff(pv.attempt)
                THEN [failed EXCEPT !.pc = "backoff",
                                    !.delays = Append(@, ConnectBackoffMs(pv.attempt))]
              ELSE ConnectLoopNext(failed)
  /\ UNCHANGED <<tx, chain, wk, con>>
  /\ UNCHANGED kitvars
  /\ UNCHANGED emitted

\* the backoff timer fires
ConnectBackoffDone ==
  /\ pv.pc = "backoff"
  /\ pv' = ConnectLoopNext(pv)
  /\ UNCHANGED <<tx, chain, wk, con>>
  /\ UNCHANGED kitvars
  /\ UNCHANGED emitted

\* provider.getNetwork() on the fallback RPC settles
FallbackTested(ok) ==
  /\ pv.pc = "fallback"
  /\ pv' = IF ok THEN [pv EXCEPT !.pc = "returned", !.result = "fallback"]
                 ELSE [pv EXCEPT !.pc = "failed",
                                 !.error = "Failed to connect to provider for "
                                             \o pv.network]
  /\ UNCHANGED <<tx, chain, wk, con>>
  /\ UNCHANGED kitvars
  /\ UNCHANGED emitted

\* ------------------------------------------------------------ getWalletKit
\* getWalletKit() is called: the cached kit, or WalletKit.init is issued
GetWalletKitCall(c) ==
  /\ wk.calls[c].pc = "idle"
  /\ c > 1 => wk.calls[c - 1].pc # "idle"
  /\ wk' = IF wk.walletKit # NoKit
             THEN [wk EXCEPT !.calls[c] = [pc |-> "returned", kit |-> NoKit,
                                           ret |-> wk.walletKit]]
           ELSE IF ~wk.projectId
             THEN [wk EXCEPT !.calls[c].pc = "failed"]
           ELSE [wk EXCEPT !.inits = @ + 1, !.calls[c].pc = "init"]
  /\ UNCHANGED <<tx, chain, pv, con>>
  /\ UNCHANGED kitvars
  /\ UNCHANGED emitted

\* WalletKit.init settles with a new kit; setupEventHandlers(kit) is issued
KitInitDone(c, ok) ==
  /\ wk.calls[c].pc = "init"
  /\ wk' = IF ok
             THEN [wk EXCEPT !.setups = @ + 1,
                             !.calls[c] = [pc |-> "setup", kit |-> wk.setups + 1,
                                           ret |-> NoKit]]
             ELSE [wk EXCEPT !.calls[c].pc = "failed"]
  /\ UNCHANGED <<tx, chain, pv, con>>
  /\ UNCHANGED kitvars
  /\ UNCHANGED emitted

\* setupEventHandlers settles: walletKit = kit; return kit
KitSetupDone(c) ==
  /\ wk.calls[c].pc = "setup"
  /\ wk' = [wk EXCEPT !.walletKit = wk.calls[c].kit,
                      !.calls[c].pc = "returned",
                      !.calls[c].ret = wk.calls[c].kit]
  /\ UNCHANGED <<tx, chain, pv, con>>
  /\ UNCHANGED kitvars
  /\ UNCHANGED emitted

\* ------------------------------------------------------------ time
\* simulated time: it advances while a request awaits its provider or its approval
\* timer is pending, and never past the instant at which a pending timer is due
Tick ==
  /\ \E r \in DOMAIN req : req[r].pc = "provider" \/ req[r].timer = "armed"
  /\ now + TickMs <= MaxTicks * TickMs
  /\ \A r \in DOMAIN req :
       req[r].timer = "armed" => now + TickMs <= TimerDue(req[r].waitStart)
  /\ now' = now + TickMs
  /\ UNCHANGED <<activeSessions, sessions, pendingProposals, currentWalletId,
                 autoMintEnabled, dbStatus, wantAuto, prop, req, del, pairs>>
  /\ UNCHANGED libvars
  /\ UNCHANGED emitted

\* ------------------------------------------------------------ specification
\* one wallet; one invocation of every handler; every request input
Next ==
  \/ \E p \in 1..MaxProposals : ProposalStart(p, p, PairingTopic(1))
  \/ \E p \in 1..MaxProposals, ok \in BOOLEAN : ProposalFetched(p, ok)
  \/ \E p \in 1..MaxProposals, ok \in BOOLEAN : ProposalDecrypted(p, ok)
  \/ \E p \in 1..MaxProposals, ok \in BOOLEAN : ProposalApproved(p, ok)
  \/ \E p \in 1..MaxProposals, ok \in BOOLEAN : ProposalStatusDone(p, ok)
  \/ \E p \in 1..MaxProposals, ok \in BOOLEAN : ProposalRejectDone(p, ok)
  \/ \E d \in 1..MaxDeletes, sid \in 1..MaxProposals : DeleteStart(d, sid)
  \/ \E d \in 1..MaxDeletes, ok \in BOOLEAN : DeleteFinish(d, ok)
  \/ \E r \in 1..MaxRequests, i \in 1..MaxProposals, inp \in ReqInputs :
        RequestStart(r, SessionTopic(i), inp)
  \/ \E r \in 1..MaxRequests, ok \in BOOLEAN : RequestProvider(r, ok)
  \/ \E r \in 1..MaxRequests, a \in BOOLEAN : RequestDecision(RequestId(r), a)
  \/ \E r \in 1..MaxRequests : RequestTimeout(r)
  \/ \E r \in 1..MaxRequests, ok \in BOOLEAN : RequestDispatchDone(r, ok)
  \/ \E r \in 1..MaxRequests, ok \in BOOLEAN : RequestRespondDone(r, ok)
  \/ \E r \in 1..MaxRequests, ok \in BOOLEAN : RequestCatchDone(r, ok)
  \/ \E k \in 1..MaxPairs, a \in BOOLEAN, m \in BOOLEAN : PairCall(k, "w1", a, m)
  \/ \E k \in 1..MaxPairs, ok \in BOOLEAN : PairKitReady(k, ok)
  \/ \E k \in 1..MaxPairs, ok \in BOOLEAN : PairDone(k, ok)
  \/ SetCurrentWalletId("w1")
  \/ \E b \in BOOLEAN : SetAutoMint(b)
  \/ Tick

Spec == Init /\ [][Next]_vars

\* the registry under several proposals: auto-signed eth_chainId requests only
InitRegistry == InitWith(RegProposals, RegRequests, RegDeletes, 1) /\ InitLib

NextRegistry ==
  \/ \E p \in 1..RegProposals, i \in 1..RegPairingTopics :
        ProposalStart(p, p, PairingTopic(i))
  \/ \E p \in 1..RegProposals, ok \in BOOLEAN : ProposalFetched(p, ok)
  \/ \E p \in 1..RegProposals, ok \in BOOLEAN : ProposalDecrypted(p, ok)
  \/ \E p \in 1..RegProposals, ok \in BOOLEAN : ProposalApproved(p, ok)
  \/ \E p \in 1..RegProposals, ok \in BOOLEAN : ProposalStatusDone(p, ok)
  \/ \E p \in 1..RegProposals, ok \in BOOLEAN : ProposalRejectDone(p, ok)
  \/ \E d \in 1..RegDeletes, sid \in 1..RegProposals : DeleteStart(d, sid)
  \/ \E d \in 1..RegDeletes, ok \in BOOLEAN : DeleteFinish(d, ok)
  \/ \E r \in 1..RegRequests, i \in 1..RegProposals :
        RequestStart(r, SessionTopic(i), <<"eth_chainId", "none">>)
  \/ \E r \in 1..RegRequests, ok \in BOOLEAN : RequestProvider(r, ok)
  \/ \E r \in 1..RegRequests, ok \in BOOLEAN : RequestRespondDone(r, ok)
  \/ \E r \in 1..RegRequests, ok \in BOOLEAN : RequestCatchDone(r, ok)
  \/ \E w \in Wallets : SetCurrentWalletId(w)

SpecRegistry == InitRegistry /\ [][NextRegistry]_vars

\* session_proposal alone: every kind of event id and pairing topic
ProposalIds == {NoId, 0, 1, 2}
ProposalTopics == {"", PairingTopic(1)}

InitProposal == InitWith(PropProposals, 0, 0, 0) /\ InitLib

\* the relay never reuses the id of a proposal
NextProposal ==
  \/ \E p \in 1..PropProposals, t \in ProposalTopics,
        id \in ProposalIds \ {prop[q].id : q \in {x \in 1..PropProposals :
                                                   prop[x].pc # "idle"}} :
        ProposalStart(p, id, t)
  \/ \E p \in 1..PropProposals, ok \in BOOLEAN : ProposalFetched(p, ok)
  \/ \E p \in 1..PropProposals, ok \in BOOLEAN : ProposalDecrypted(p, ok)
  \/ \E p \in 1..PropProposals, ok \in BOOLEAN : ProposalApproved(p, ok)
  \/ \E p \in 1..PropProposals, ok \in BOOLEAN : ProposalStatusDone(p, ok)
  \/ \E p \in 1..PropProposals, ok \in BOOLEAN : ProposalRejectDone(p, ok)
  \/ \E w \in {"w1", NoWallet} : SetCurrentWalletId(w)

SpecProposal == InitProposal /\ [][NextProposal]_vars

\* handleTransaction alone
InitTx == InitWith(0, 0, 0, 0) /\ InitLib

NextTx ==
  \/ \E hasGas \in BOOLEAN, gas \in GasInputs, hasFees \in BOOLEAN,
        fee \in FeeInputs, hasNonce \in BOOLEAN, nonce \in NonceInputs :
        TxCall(1, hasGas, gas, hasFees, fee, hasNonce, nonce)
  \/ \E ok \in BOOLEAN, e \in EstimateInputs : TxEstimated(1, ok, e)
  \/ \E kind \in {"eip1559", "legacy", "fail"}, fee \in FeeInputs \ {0} :
        TxFeeData(1, kind, fee)
  \/ \E ok \in BOOLEAN, price \in FeeInputs \ {0} : TxGasPrice(1, ok, price)
  \/ \E ok \in BOOLEAN : TxNonce(1, ok)
  \/ \E ok \in BOOLEAN : TxSent(1, ok)
  \/ \E ok \in BOOLEAN : TxConfirmed(1, ok)
  \/ TxBackoffDone(1)

SpecTx == InitTx /\ [][NextTx]_vars

\* Two eth_sendTransaction requests of one session in flight together: each
\* handler invocation calls handleTransaction on its own, for the same account.
\* The requests carry gas and fees and no nonce.
InitNonce == InitWith(0, 0, 0, 0) /\ InitLibWith(NonceCalls, 0, FALSE)

NextNonce ==
  \/ \E i \in 1..NonceCalls : TxCall(i, TRUE, 21000, TRUE, 7, FALSE, 0)
  \/ \E i \in 1..NonceCalls, ok \in BOOLEAN : TxNonce(i, ok)
  \/ \E i \in 1..NonceCalls, ok \in BOOLEAN : TxSent(i, ok)
  \/ \E i \in 1..NonceCalls, ok \in BOOLEAN : TxConfirmed(i, ok)
  \/ \E i \in 1..NonceCalls : TxBackoffDone(i)

SpecNonce == InitNonce /\ [][NextNonce]_vars

\* Pairing and the proposal it brings: the session_proposal event of pair k
\* carries the pairing topic of its uri and arrives once kit.pair was issued;
\* the user interface may move the focus to another wallet at any time.
InitFocus == InitWith(FocusProposals, 0, 0, FocusPairs) /\ InitLib

NextFocus ==
  \/ \E k \in 1..FocusPairs, w \in Wallets : PairCall(k, w, TRUE, TRUE)
  \/ \E k \in 1..FocusPairs, ok \in BOOLEAN : PairKitReady(k, ok)
  \/ \E k \in 1..FocusPairs, ok \in BOOLEAN : PairDone(k, ok)
  \/ \E w \in Wallets : SetCurrentWalletId(w)
  \/ \E p \in 1..FocusProposals, k \in 1..FocusPairs :
        /\ pairs[k].pc \in {"pairing", "done"}
        /\ \A q \in 1..FocusProposals : prop[q].topic # PairingTopic(k)
        /\ ProposalStart(p, p, PairingTopic(k))
  \/ \E p \in 1..FocusProposals, ok \in BOOLEAN : ProposalFetched(p, ok)
  \/ \E p \in 1..FocusProposals, ok \in BOOLEAN : ProposalDecrypted(p, ok)
  \/ \E p \in 1..FocusProposals, ok \in BOOLEAN : ProposalApproved(p, ok)
  \/ \E p \in 1..FocusProposals, ok \in BOOLEAN : ProposalStatusDone(p, ok)
  \/ \E p \in 1..FocusProposals, ok \in BOOLEAN : ProposalRejectDone(p, ok)

SpecFocus == InitFocus /\ [][NextFocus]_vars

\* Connecting a wallet from the user interface: connectWallet is the only
\* caller of pair; proposals arrive for the pairings it started, and the user
\* may switch the auto-mint toggle.
InitConnect == InitWith(ConnProposals, 0, 0, ConnCalls) /\ InitLibWith(1, ConnCalls, FALSE)

NextConnect ==
  \/ \E c \in 1..ConnCalls, uriOk \in BOOLEAN, n \in {"ethereum", "skale"} :
        ConnectCall(c, uriOk, "w1", n, FALSE)
  \/ \E c \in 1..ConnCalls, ok \in BOOLEAN : ConnectRowServed(c, ok)
  \/ \E c \in 1..ConnCalls : ConnectFetched(c)
  \/ \E c \in 1..ConnCalls : ConnectPaired(c)
  \/ \E k \in 1..ConnCalls, ok \in BOOLEAN : PairKitReady(k, ok)
  \/ \E k \in 1..ConnCalls, ok \in BOOLEAN : PairDone(k, ok)
  \/ \E enabled \in BOOLEAN : SetAutoMint(enabled)
  \/ \E p \in 1..ConnProposals, k \in 1..ConnCalls :
        /\ pairs[k].pc \in {"pairing", "done"}
        /\ \A q \in 1..ConnProposals : prop[q].topic # PairingTopic(k)
        /\ ProposalStart(p, p, PairingTopic(k))
  \/ \E p \in 1..ConnProposals : ProposalFetched(p, TRUE)
  \/ \E p \in 1..ConnProposals : ProposalDecrypted(p, TRUE)
  \/ \E p \in 1..ConnProposals, ok \in BOOLEAN : ProposalApproved(p, ok)
  \/ \E p \in 1..ConnProposals, ok \in BOOLEAN : ProposalStatusDone(p, ok)
  \/ \E p \in 1..ConnProposals : ProposalRejectDone(p, TRUE)

SpecConnect == InitConnect /\ [][NextConnect]_vars

\* Chain switch and introspection requests on the sessions of both wallets,
\* auto-approved (sessions are created with autoSign on).
InitMethods == InitWith(MethProposals, MethRequests, 0, 0) /\ InitLib

NextMethods ==
  \/ \E w \in Wallets : SetCurrentWalletId(w)
  \/ \E p \in 1..MethProposals : ProposalStart(p, p, PairingTopic(p))
  \/ \E p \in 1..MethProposals : ProposalFetched(p, TRUE)
  \/ \E p \in 1..MethProposals : ProposalDecrypted(p, TRUE)
  \/ \E p \in 1..MethProposals, ok \in BOOLEAN : ProposalApproved(p, ok)
  \/ \E p \in 1..MethProposals : ProposalStatusDone(p, TRUE)
  \/ \E p \in 1..MethProposals : ProposalRejectDone(p, TRUE)
  \/ \E r \in 1..MethRequests, i \in 1..MethProposals, input \in MethodInputs :
        \E topic \in {PairingTopic(i), SessionTopic(i)} : RequestStart(r, topic, input)
  \/ \E r \in 1..MethRequests, ok \in BOOLEAN : RequestProvider(r, ok)
  \/ \E r \in 1..MethRequests, ok \in BOOLEAN : RequestRespondDone(r, ok)
  \/ \E r \in 1..MethRequests, ok \in BOOLEAN : RequestCatchDone(r, ok)

SpecMethods == InitMethods /\ [][NextMethods]_vars

\* Everything the handlers and pair emit, recorded: one pairing, its proposal,
\* one request and one deletion; once the session is set up the user moves
\* the focus between the wallets or clears it, and may switch auto-mint off.
LogInputs == {<<"personal_sign", "none">>, <<"eth_sendTransaction", "mint">>,
              <<"eth_accounts", "none">>, <<"eth_foo", "none">>}

InitLogs == InitWith(1, LogRequests, 1, 1) /\ InitLibWith(1, 0, TRUE)

NextLogs ==
  \/ \E w \in Wallets \cup {NoWallet} : prop[1].pc = "done" /\ SetCurrentWalletId(w)
  \/ PairCall(1, "w1", FALSE, TRUE)
  \/ prop[1].pc = "done" /\ SetAutoMint(FALSE)
  \/ PairKitReady(1, TRUE)
  \/ PairDone(1, TRUE)
  \/ pairs[1].pc = "done" /\ ProposalStart(1, 1, PairingTopic(1))
  \/ \E ok \in BOOLEAN : ProposalFetched(1, ok)
  \/ ProposalDecrypted(1, TRUE)
  \/ ProposalApproved(1, TRUE)
  \/ ProposalStatusDone(1, TRUE)
  \/ ProposalRejectDone(1, TRUE)
  \/ \E r \in 1..LogRequests, input \in LogInputs :
        prop[1].pc = "done" /\ RequestStart(r, SessionTopic(1), input)
  \/ \E r \in 1..LogRequests, ok \in BOOLEAN : RequestProvider(r, ok)
  \/ \E eventId \in 1..LogRequests, approve \in BOOLEAN :
        RequestDecision(eventId, approve)
  \/ \E r \in 1..LogRequests, ok \in BOOLEAN : RequestDispatchDone(r, ok)
  \/ \E r \in 1..LogRequests, ok \in BOOLEAN : RequestRespondDone(r, ok)
  \/ \E r \in 1..LogRequests : RequestCatchDone(r, TRUE)
  \/ DeleteStart(1, 1)
  \/ DeleteFinish(1, TRUE)

SpecLogs == InitLogs /\ [][NextLogs]_vars

\* createProvider alone
InitProvider == InitWith(0, 0, 0, 0) /\ InitLib

NextProvider ==
  \/ \E n \in NetworkIds : CreateProviderCall(n)
  \/ \E ok \in BOOLEAN : SkaleTested(ok)
  \/ \E hasKey \in BOOLEAN : KeyFetched(hasKey)
  \/ \E ms \in ResponseTimes, ok \in BOOLEAN : TestSettled(ms, ok)
  \/ ConnectBackoffDone
  \/ \E ok \in BOOLEAN : FallbackTested(ok)

SpecProvider == InitProvider /\ [][NextProvider]_vars

\* getWalletKit alone, with and without a configured project id
InitKit ==
  /\ InitWith(0, 0, 0, 0)
  /\ tx = [i \in 1..1 |-> IdleTx]
  /\ chain = [count |-> 0]
  /\ pv = IdlePv
  /\ con = << >>
  /\ emitted = NoObserver
  /\ \E configured \in BOOLEAN : wk = [IdleKit EXCEPT !.projectId = configured]

NextKit ==
  \/ \E c \in 1..KitCalls : GetWalletKitCall(c)
  \/ \E c \in 1..KitCalls, ok \in BOOLEAN : KitInitDone(c, ok)
  \/ \E c \in 1..KitCalls : KitSetupDone(c)

SpecKit == InitKit /\ [][NextKit]_vars

\* requests in flight together on one approved session: a mint transaction, which
\* waits for a decision while auto-mint is off, and eth_chainId, which never waits
ConcInputs == {<<"eth_sendTransaction", "mint">>, <<"eth_chainId", "none">>}

InitConcurrent == InitWith(1, ConcRequests, 0, 0) /\ InitLib

NextConcurrent ==
  \/ SetCurrentWalletId("w1")
  \/ ProposalStart(1, 1, PairingTopic(1))
  \/ ProposalFetched(1, TRUE)
  \/ ProposalDecrypted(1, TRUE)
  \/ ProposalApproved(1, TRUE)
  \/ ProposalStatusDone(1, TRUE)
  \/ \E b \in BOOLEAN : SetAutoMint(b)
  \/ \E r \in 1..ConcRequests, inp \in ConcInputs :
        RequestStart(r, SessionTopic(1), inp)
  \/ \E r \in 1..ConcRequests, ok \in BOOLEAN : RequestProvider(r, ok)
  \/ \E r \in 1..ConcRequests, a \in BOOLEAN : RequestDecision(RequestId(r), a)
  \/ \E r \in 1..ConcRequests : RequestTimeout(r)
  \/ \E r \in 1..ConcRequests, ok \in BOOLEAN : RequestDispatchDone(r, ok)
  \/ \E r \in 1..ConcRequests, ok \in BOOLEAN : RequestRespondDone(r, ok)
  \/ \E r \in 1..ConcRequests, ok \in BOOLEAN : RequestCatchDone(r, ok)
  \/ Tick

SpecConcurrent == InitConcurrent /\ [][NextConcurrent]_vars

\* ------------------------------------------------------------ claims
ErrorResponse == [kind |-> "error", code |-> 4001]
Handled(r) == req[r].pc # "idle"
Finished(r) == req[r].pc \in {"done", "unhandled"}
IsMintInput(r) ==
  req[r].method = "eth_sendTransaction" /\ req[r].arg \in {"mint", "mintUpper"}

\* C1: every topic of a session that session_delete has not removed resolves, raw
\* and "wc:"-prefixed, to that session
AliasConvergence ==
  \A sid \in 1..Len(sessions) :
    ~sessions[sid].removed =>
      \A t \in sessions[sid].topics :
        /\ MapGet(activeSessions, t) = sid
        /\ MapGet(activeSessions, Wc(t)) = sid

\* C2: respondSessionRequest is never invoked twice for a request, and a handler
\* that has ended has invoked it exactly once
ExactlyOneResponse ==
  \A r \in DOMAIN req :
    /\ Len(req[r].responses) <= 1
    /\ Finished(r) => Len(req[r].responses) = 1

\* C3 (as stated): a request whose topic is no key of the registry, raw or
\* "wc:"-prefixed, finds no session
UnknownTopicNotFound ==
  \A r \in DOMAIN req :
    (Handled(r) /\ ~req[r].aliasKnown) => req[r].sid = NoSession

\* C3 (amended): a request finds no session exactly when the registry held no key
\* at all; then the first response is the error 4001, the dispatcher never runs,
\* and the step that found no session left the registry and the sessions unchanged
NotFoundOnlyWhenEmpty ==
  /\ [](\A r \in DOMAIN req :
          Handled(r) =>
            /\ (req[r].sid = NoSession) <=> req[r].registryEmpty
            /\ req[r].sid = NoSession =>
                 /\ ~req[r].dispatched
                 /\ req[r].pc \in {"catch", "done", "unhandled"}
                 /\ req[r].responses[1] = ErrorResponse
                 /\ req[r].outcomes[1] = FALSE)
  /\ [][\A r \in DOMAIN req :
          (~Handled(r) /\ req'[r].pc # "idle" /\ req'[r].sid = NoSession)
            => UNCHANGED <<activeSessions, sessions>>]_vars

NotFoundHappened ==
  \E r \in DOMAIN req : req[r].pc = "done" /\ req[r].sid = NoSession

\* C4: the dispatcher runs only for a request that was auto-approved when it was
\* classified, or that an approve decision resolved while it was waiting
ApprovalGate ==
  \A r \in DOMAIN req :
    req[r].dispatched =>
      \/ req[r].autoSignSeen /\ (~IsMintInput(r) \/ req[r].autoMintSeen)
      \/ req[r].decision = "approve" /\ req[r].resolvedBy = "decision"

MintApprovedByHand ==
  \E r \in DOMAIN req :
    /\ req[r].dispatched /\ IsMintInput(r)
    /\ req[r].autoSignSeen /\ ~req[r].autoMintSeen
    /\ req[r].decision = "approve"

\* C5: a request on a session created after pair(.., autoSign = false) for its
\* wallet, with that setting still the latest, is dispatched only on an approve
ManualSigningHonoured ==
  \A r \in DOMAIN req :
    (req[r].dispatched /\ req[r].pairAutoSeen = "off" /\ req[r].wantAutoSeen = "off")
      => req[r].decision = "approve"

\* C6: a request resolved by a decision never has its timer fire, and a decision
\* that arrives after the timeout changes nothing of the request but its listener
FirstSignalWins ==
  /\ [](\A r \in DOMAIN req : req[r].resolvedBy = "decision" => req[r].timer # "fired")
  /\ [][\A r \in DOMAIN req :
          (req[r].resolvedBy = "timeout" /\ req[r].listener /\ ~req'[r].listener)
            => req' = [req EXCEPT ![r].listener = FALSE]]_vars

LateDecisionHappened ==
  \E r \in DOMAIN req :
    req[r].resolvedBy = "timeout" /\ ~req[r].listener /\ req[r].pc = "done"

\* C7: a wait that no decision resolves lasts until 180000 ms after it began, and
\* then fails: the first response is the error 4001 and the dispatcher never runs
TimeoutAt180s ==
  \A r \in DOMAIN req :
    /\ req[r].pc = "waiting" => now - req[r].waitStart <= 180000
    /\ req[r].resolvedBy = "timeout" =>
         /\ req[r].endedAt - req[r].waitStart = 180000
         /\ req[r].decision = "none"
         /\ ~req[r].dispatched
         /\ req[r].responses[1] = ErrorResponse

TimedOut ==
  \E r \in DOMAIN req :
    req[r].resolvedBy = "timeout" /\ req[r].pc = "done" /\ req[r].waitStart > 0

\* C8: a request rejected by a decision is answered with the error 4001 and the
\* dispatcher never runs for it
RejectionNeverDispatches ==
  \A r \in DOMAIN req :
    req[r].decision = "reject" =>
      /\ ~req[r].dispatched
      /\ req[r].responses[1] = ErrorResponse
      /\ req[r].outcomes[1] = FALSE

RejectedByHand ==
  \E r \in DOMAIN req : req[r].decision = "reject" /\ req[r].pc = "done"

\* C9: no session_request handler ends with an error that escapes it
NoUnhandledRequestError ==
  \A r \in DOMAIN req : req[r].pc # "unhandled"

\* C10: once the handler of a session_delete naming a session's relay topic has
\* ended, no registry key maps to that session
DeleteRemovesEveryAlias ==
  \A d \in DOMAIN del :
    del[d].pc = "done" => del[d].target \notin MapValues(activeSessions)

\* C11: once the handler of a failed proposal has ended, no registry key maps to a
\* session created for that proposal
NoSessionForRejectedProposal ==
  \A p \in DOMAIN prop :
    (prop[p].failed /\ prop[p].pc \in {"done", "unhandled"})
      => prop[p].sid \notin MapValues(activeSessions)

\* C12: once the handler of a proposal that carries an id has ended, the
\* pending-proposal table holds no entry under the string of that id
PendingEntriesRemoved ==
  \A p \in DOMAIN prop :
    (prop[p].pc \in {"done", "unhandled"} /\ prop[p].id # NoId)
      => ProposalIdString(prop[p].id) \notin pendingProposals

\* C13: every failure of the session_proposal handler calls rejectSession for the
\* proposal
FailureRejectsProposal ==
  \A p \in DOMAIN prop : prop[p].failed => prop[p].rejectCalls = 1

\* C14: handleTransaction never submits a 4th time; when every attempt fails it
\* has submitted exactly 3 times, throws the error of the 3rd attempt, and has
\* waited twice, never after the 3rd failure
RetryBound ==
  \A i \in DOMAIN tx :
    /\ Len(tx[i].sent) <= 3
    /\ tx[i].pc = "backoff" => Len(tx[i].errors) < 3
    /\ (tx[i].pc = "failed" /\ Len(tx[i].sent) > 0) =>
         /\ Len(tx[i].sent) = 3
         /\ Len(tx[i].errors) = 3
         /\ tx[i].thrown = tx[i].errors[3]
         /\ Len(tx[i].delays) = 2

AllAttemptsFailed == \E i \in DOMAIN tx : tx[i].pc = "failed" /\ Len(tx[i].sent) = 3

AtLeast20PercentMore(new, prev) == 5 * (new - prev) >= prev

\* C15: every resubmission carries a gas limit, and fee fields in use, of at least
\* 1.2 times those of the submission before it
GasBumpAtLeast20Percent ==
  \A i \in DOMAIN tx : \A k \in 2..Len(tx[i].sent) :
    /\ AtLeast20PercentMore(tx[i].sent[k].gasLimit, tx[i].sent[k - 1].gasLimit)
    /\ AtLeast20PercentMore(tx[i].sent[k].maxFeePerGas, tx[i].sent[k - 1].maxFeePerGas)
    /\ AtLeast20PercentMore(tx[i].sent[k].maxPriorityFeePerGas,
                            tx[i].sent[k - 1].maxPriorityFeePerGas)
    /\ AtLeast20PercentMore(tx[i].sent[k].gasPrice, tx[i].sent[k - 1].gasPrice)

\* C16: the k-th backoff of handleTransaction lasts 1000 * 2^(k-1) ms, and a call
\* whose first two attempts fail and whose third succeeds returns the hash of the
\* third submission after exactly the delays 1000 ms and 2000 ms
TwoFailuresThenSuccess ==
  \A i \in DOMAIN tx :
    /\ \A k \in 1..Len(tx[i].delays) : tx[i].delays[k] = 1000 * 2^(k - 1)
    /\ (tx[i].pc = "returned" /\ Len(tx[i].errors) = 2) =>
         /\ Len(tx[i].sent) = 3
         /\ tx[i].result = "hash3"
         /\ tx[i].delays = <<1000, 2000>>

SucceededOnThirdAttempt ==
  \E i \in DOMAIN tx : tx[i].pc = "returned" /\ Len(tx[i].errors) = 2

ConnectivityTestBound ==
  /\ pv.tests <= 3
  /\ \A k \in 1..Len(pv.durations) : pv.durations[k] <= 10000
  /\ pv.result = "aggregator" => pv.tests = pv.failures + 1

\* C17 (as stated): at most 3 connectivity tests of at most 10 s each, the first
\* success returns, and the k-th failed test is followed by a wait of 1 s, 2 s, 4 s
ConnectivityBackoff124 ==
  /\ ConnectivityTestBound
  /\ pv.failures <= 3 => pv.delays = SubSeq(<<1000, 2000, 4000>>, 1, pv.failures)

\* C17 (amended): at most 3 connectivity tests of at most 10 s each, the first
\* success returns, and the waits are 1 s after the first failed test and 2 s
\* after the second; no wait follows the third
ConnectivityBackoff12 ==
  /\ ConnectivityTestBound
  /\ pv.delays = SubSeq(<<1000, 2000>>, 1,
                        IF pv.failures < 2 THEN pv.failures ELSE 2)

ConnectivityExhausted == pv.failures = 3 /\ pv.pc = "fallback"

\* C18: createProvider fails for a network with a fallback RPC URL only after one
\* test of that URL, and with an error that names the network
FallbackTriedBeforeFailure ==
  (pv.pc = "failed" /\ pv.network # "skale" /\ HasRpcUrl(pv.network)) =>
    /\ pv.fallbackTests = 1
    /\ pv.error = "Failed to connect to provider for " \o pv.network

KitSingleton ==
  /\ wk.inits <= 1
  /\ wk.setups <= 1
  /\ \A c1, c2 \in DOMAIN wk.calls :
       (wk.calls[c1].pc = "returned" /\ wk.calls[c2].pc = "returned")
         => wk.calls[c1].ret = wk.calls[c2].ret

\* handleTransaction is between its call and its return or throw
InFlight(rec) == rec.pc \notin {"idle", "returned", "failed"}

\* C27: two eth_sendTransaction requests in flight together on one session,
\* neither with a caller's nonce, never submit transactions with the same nonce
DistinctNonces ==
  \A i, j \in DOMAIN tx :
    (i # j /\ InFlight(tx[i]) /\ InFlight(tx[j]) /\ ~tx[i].nonceIn /\ ~tx[j].nonceIn) =>
      \A a \in 1..Len(tx[i].sent), b \in 1..Len(tx[j].sent) :
        tx[i].sent[a].nonce # tx[j].sent[b].nonce

\* C28: once an attempt's sendTransaction has returned a response, the same
\* call of handleTransaction makes no further sendTransaction call, even when
\* waiting for the confirmation fails
NoResendAfterBroadcast ==
  \A i \in DOMAIN tx :
    \A k \in 1..Len(tx[i].hashes) : Len(tx[i].sent) <= tx[i].hashes[k]

\* C25: no request is dispatched with the credential of a session whose
\* deletion has been processed: a request that resolved to session S and was
\* waiting when the session_delete for S completed is not signed or submitted
\* with S afterwards
NoDispatchAfterDelete ==
  [][\A r \in DOMAIN req :
       (~req[r].dispatched /\ req'[r].dispatched) =>
          ~sessions'[req'[r].sid].removed]_vars

\* C26: the session created from the proposal that pair(uri, W) brings belongs
\* to W, whatever the interleaving of pair, setCurrentWalletId for other
\* wallets and the arrival of the session_proposal event
PairedSessionBelongsToWallet ==
  \A p \in DOMAIN prop, k \in DOMAIN pairs :
    (prop[p].topic = PairingTopic(k) /\ prop[p].sid # NoSession) =>
       sessions[prop[p].sid].walletId = pairs[k].wallet

\* the wallet has an approved session whose deletion was not processed yet,
\* and its status in the database is 'connected'
ConnectedNow(w) ==
  /\ dbStatus[w] = "connected"
  /\ \E i \in 1..Len(sessions) :
        sessions[i].walletId = w /\ sessions[i].established /\ ~sessions[i].removed

\* C21: connectWallet throws without calling pair when the wallet's stored
\* status is 'connected' or its network is not the requested one; so between
\* an approval (status 'connected') and the processing of that session's
\* deletion no second pairing is started for the wallet
NoSecondPairing ==
  [][\A c \in DOMAIN con :
       (con[c].pc = "row" /\ con'[c].pc = "pairing") =>
          /\ WalletNetwork(con[c].wallet) = con[c].network
          /\ ~ConnectedNow(con[c].wallet)]_vars

\* C29: the auto-mint toggle changes only through setAutoMint or an explicit
\* autoMint argument: a pairing started through connectWallet leaves it as it
\* was, in particular off after setAutoMint(false)
ConnectKeepsAutoMint ==
  [][\A c \in DOMAIN con :
       (con[c].pc = "row" /\ con'[c].pc = "pairing") =>
          autoMintEnabled' = autoMintEnabled]_vars

IsSwitch(r) == req[r].method = "wallet_switchEthereumChain"

\* the chain id a wallet_switchEthereumChain request asks for is that of a
\* configured network
AsksConfiguredChain(r) ==
  \E n \in NetworkIds : ChainId(n) = ParseInt16(ChainIdParam(req[r].arg))

\* a step of the handler of request r
HandlerStep(r) == req'[r] # req[r]

ChainIdShim ==
  \A r \in DOMAIN req :
    (req[r].method = "eth_chainId" /\ req[r].dispatched) =>
       req[r].result = IF UseEthereumWallet(sessions[req[r].sid].network)
                         THEN "0x1"
                         ELSE "0x" \o ToHex(sessions[req[r].sid].chainId)

LogsCarrySessionWallet ==
  \A e \in emitted.entries :
    (e.handler \in {"request", "delete"} /\ e.sid # NoSession
       /\ e.channel \in {"reown:log", "console.warn"}) =>
      e.channel = "reown:log" /\ e.walletId = sessions[e.sid].walletId

====
